---- MODULE Spec2Model ----
(***************************************************************************)
(* A model of the project calls of the Modrinth API client                 *)
(* (src/src/api_calls/project.rs) and of the identifier validators         *)
(* (src/src/api_calls/mod.rs).                                             *)
(*                                                                         *)
(* Strings are sequences of one-character strings; a character's code      *)
(* point is its position in the ASCII table, so that the ranges of the     *)
(* regular expressions (a-z, A-Z, 0-9, a-f) are ranges of code points as   *)
(* they are for the regex crate.                                           *)
(***************************************************************************)
EXTENDS Integers, Sequences, FiniteSets, TLC

VARIABLES
    client,     \* the client's configuration, fixed at construction
    pc,         \* per task: "idle", "awaiting" (suspended on the transport) or "done"
    call,       \* per task: the operation called and its arguments
    sent,       \* per task: the requests the current call handed to the transport
    reply,      \* per task: what the transport returned to the current call
    result,     \* per task: what the call returned to its caller
    examined,   \* per task: how many identifiers the validator looked at
    vkind,      \* validator run: which validator ("slug", "sha1", or "off")
    vinput,     \* validator run: the input string
    vout        \* validator run: the validator's result, "none" before it ran

vars == <<client, pc, call, sent, reply, result, examined, vkind, vinput, vout>>

callVars == <<client, pc, call, sent, reply, result, examined>>
validatorVars == <<vkind, vinput, vout>>

----------------------------------------------------------------------------
(* Characters *)

\* The printable ASCII characters in code point order, from 32 (space) to 126 (~).
Ascii ==
    << " ", "!", "\"", "#", "$", "%", "&", "'", "(", ")", "*", "+",
       ",", "-", ".", "/", "0", "1", "2", "3", "4", "5", "6", "7",
       "8", "9", ":", ";", "<", "=", ">", "?", "@", "A", "B", "C",
       "D", "E", "F", "G", "H", "I", "J", "K", "L", "M", "N", "O",
       "P", "Q", "R", "S", "T", "U", "V", "W", "X", "Y", "Z", "[",
       "\\", "]", "^", "_", "U+0060", "a", "b", "c", "d", "e", "f", "g",
       "h", "i", "j", "k", "l", "m", "n", "o", "p", "q", "r", "s",
       "t", "u", "v", "w", "x", "y", "z", "{", "|", "}", "~" >>

\* The grave accent (code point 96) is written "U+0060" in the table.
\* A character outside ASCII (U+00E9), likewise written as a token.
NonAscii == "U+00E9"

\* The code point of each character of the table.
AsciiOrd ==
    [c \in {Ascii[i] : i \in 1..Len(Ascii)} |->
        31 + (CHOOSE i \in 1..Len(Ascii) : Ascii[i] = c)]

Ord(c) == IF c = NonAscii THEN 233 ELSE AsciiOrd[c]

\* A regex character range lo-hi.
InRange(c, lo, hi) == Ord(lo) <= Ord(c) /\ Ord(c) <= Ord(hi)

----------------------------------------------------------------------------
(* The validators: src/src/api_calls/mod.rs *)

Ok == "Ok"
NotBase62 == "NotBase62"
NotSHA1 == "NotSHA1"

\* The class [^a-zA-Z0-9-] with the range A-z in place of a-zA-Z.
NotBase62Class_wideRange(c) ==
    ~(InRange(c, "A", "z") \/ InRange(c, "0", "9") \/ c = "-")

\* The class [^a-zA-Z0-9./-], which lets the dot and the slash through.
NotBase62Class_pathChars(c) ==
    ~(InRange(c, "a", "z") \/ InRange(c, "A", "Z") \/ InRange(c, "0", "9")
        \/ c \in {".", "/", "-"})

\* The regex [^a-zA-Z0-9-]: one character that is in none of the ranges.
NotBase62Class(c) ==
    ~(InRange(c, "a", "z") \/ InRange(c, "A", "Z") \/ InRange(c, "0", "9") \/ c = "-")

\* Regex::is_match of an unanchored one-character pattern: some position matches.
is_match_any(input) == \E i \in 1..Len(input) : NotBase62Class(input[i])

\* check_id_slug on the empty input returning the error.
check_id_slug_rejectEmpty(input) ==
    IF input = <<>> \/ is_match_any(input) THEN NotBase62 ELSE Ok

check_id_slug(input) ==
    IF is_match_any(input) THEN NotBase62 ELSE Ok

\* The number of repetitions in ^[a-f0-9]{40}$.
SHA1_LEN == 40

\* The class [a-f0-9] with the range A-F added.
HexClass_anyCase(c) ==
    InRange(c, "a", "f") \/ InRange(c, "A", "F") \/ InRange(c, "0", "9")

\* The class [a-f0-9].
HexClass(c) == InRange(c, "a", "f") \/ InRange(c, "0", "9")

\* [a-f0-9]{k} from position pos: the position after the match, or 0 when
\* the input ends or a character is outside the class before k were read.
RECURSIVE MatchRepeat(_, _, _)
MatchRepeat(input, pos, k) ==
    IF k = 0 THEN pos
    ELSE IF pos <= Len(input) /\ HexClass(input[pos])
         THEN MatchRepeat(input, pos + 1, k - 1)
         ELSE 0

\* ^[a-f0-9]{40}$: the repetition starts at the start of the input (^) and
\* ends at its end ($; the regex crate's $ matches only at the very end).
is_match_sha1(input) ==
    LET end == MatchRepeat(input, 1, SHA1_LEN)
    IN end # 0 /\ end = Len(input) + 1

check_sha1_hash(input) ==
    IF is_match_sha1(input) THEN Ok ELSE NotSHA1

----------------------------------------------------------------------------
(* Inputs of the validator runs *)

\* Longest identifier drawn for check_id_slug.
MaxIdLen == 2
\* Longest string drawn for check_sha1_hash.
MaxHashLen == 42

\* The characters at and around the ends of the ranges a-z, A-Z, 0-9, the
\* hyphen, the characters with a meaning in a URL, and one outside ASCII.
SlugAlphabet ==
    {"a", "z", "A", "Z", "0", "9", "-", ",", ".", "/", ":", "?", "@", "[",
     "_", "U+0060", "{", "#", "%", " ", NonAscii}

RECURSIVE SeqsUpTo(_, _)
SeqsUpTo(S, n) ==
    IF n = 0 THEN {<<>>}
    ELSE LET shorter == SeqsUpTo(S, n - 1)
         IN shorter \cup {Append(s, c) : s \in {x \in shorter : Len(x) = n - 1}, c \in S}

\* The identifiers of the documentation and of the test scenarios.
ScenarioIds ==
    { <<"A", "A", "N", "o", "b", "b", "M", "I">>,
      <<"o", "k", "-", "z", "o", "o", "m", "e", "r">>,
      <<"b", "a", "d", "/", "s", "l", "u", "g">>,
      <<"s", "o", "d", "i", "u", "m">> }

SlugInputs == SeqsUpTo(SlugAlphabet, MaxIdLen) \cup ScenarioIds

\* Pairs of characters of [a-f0-9] that fill a hash input alternately.
HexPairs == {<<"0", "a">>, <<"9", "f">>, <<"a", "0">>, <<"c", "3">>}
\* Characters next to the ranges a-f and 0-9, and the upper case ones.
OddChars == {"A", "F", "g", "U+0060", "/", ":"}

\* A string of n characters of the pair, with the odd character at position p
\* (p = 0: nowhere).
HashInput(n, pair, p, odd) ==
    [i \in 1..n |-> IF i = p THEN odd ELSE pair[1 + (i % 2)]]

HashInputs ==
    {HashInput(n, pair, p, odd) :
        n \in 0..MaxHashLen, pair \in HexPairs, p \in 0..MaxHashLen, odd \in OddChars}

InitValidators ==
    /\ vkind \in {"slug", "sha1"}
    /\ vinput \in (IF vkind = "slug" THEN SlugInputs ELSE HashInputs)
    /\ vout = "none"

ValidatorsOff ==
    /\ vkind = "off"
    /\ vinput = <<>>
    /\ vout = "none"

RunCheckIdSlug ==
    /\ vkind = "slug"
    /\ vout = "none"
    /\ vout' = check_id_slug(vinput)
    /\ UNCHANGED <<vkind, vinput>>

RunCheckSha1Hash ==
    /\ vkind = "sha1"
    /\ vout = "none"
    /\ vout' = check_sha1_hash(vinput)
    /\ UNCHANGED <<vkind, vinput>>

----------------------------------------------------------------------------
(* Values *)

\* Option<T>: None is the empty sequence, Some(x) the sequence of x alone.
None == <<>>
Some(x) == <<x>>

\* Result<T>: Ok(T) or Err(Error).  kind names the type of the value or the
\* variant of the error; id is the id a body or a String carries, "-" otherwise.
OkValue(kind, id) == [tag |-> "Ok", kind |-> kind, id |-> id]
Err(kind) == [tag |-> "Err", kind |-> kind, id |-> "-"]
NoValue == [tag |-> "none", kind |-> "-", id |-> "-"]

\* The failures of a transport call: network, HTTP status, deserialization.
TransportErrors == {"Network", "HttpStatus", "Deserialize"}

\* The id the remote service answers a check with.
CanonicalId == "AANobbMI"

----------------------------------------------------------------------------
(* The client and the request builder *)

Tasks == {"t1", "t2"}

\* Ferinth: the configuration read by every call through &self.
Clients ==
    [base_url : {"API_BASE_URL"}, user_agent : {"agent"}, token : {None, Some("token")}]

\* The literal path segments and query keys of project.rs.
SegProject == <<"p", "r", "o", "j", "e", "c", "t">>
SegProjects == <<"p", "r", "o", "j", "e", "c", "t", "s">>
SegProjectsRandom == <<"p", "r", "o", "j", "e", "c", "t", "s", "_", "r", "a", "n", "d", "o", "m">>
SegCheck == <<"c", "h", "e", "c", "k">>
SegGallery == <<"g", "a", "l", "l", "e", "r", "y">>
SegDependencies == <<"d", "e", "p", "e", "n", "d", "e", "n", "c", "i", "e", "s">>
SegFollow == <<"f", "o", "l", "l", "o", "w">>
KeyIds == <<"i", "d", "s">>
KeyCount == <<"c", "o", "u", "n", "t">>
KeyExt == <<"e", "x", "t">>
KeyFeatured == <<"f", "e", "a", "t", "u", "r", "e", "d">>
KeyTitle == <<"t", "i", "t", "l", "e">>
KeyDescription == <<"d", "e", "s", "c", "r", "i", "p", "t", "i", "o", "n">>

\* UrlJoinAll::join_all: the segments joined in order, "/" between them.
RECURSIVE JoinPath(_)
JoinPath(segments) ==
    IF Len(segments) = 0 THEN <<>>
    ELSE IF Len(segments) = 1 THEN segments[1]
    ELSE segments[1] \o <<"/">> \o JoinPath(Tail(segments))

join_all(base, segments) == [base |-> base, path |-> JoinPath(segments), query |-> <<>>]

\* UrlWithQuery::with_query: the pairs appended in order.
with_query(url, pairs) == [url EXCEPT !.query = @ \o pairs]

\* FileExt and its Display.
FileExt == {"PNG", "JPEG"}
ExtDisplay(ext) == IF ext = "PNG" THEN <<"p", "n", "g">> ELSE <<"j", "p", "e", "g">>

\* bool::to_string
BoolToString(b) == IF b THEN <<"t", "r", "u", "e">> ELSE <<"f", "a", "l", "s", "e">>

\* Number::to_string: the decimal digits, most significant first.
DigitChars == <<"0", "1", "2", "3", "4", "5", "6", "7", "8", "9">>
RECURSIVE NumberToString(_)
NumberToString(n) ==
    IF n < 10 THEN <<DigitChars[n + 1]>>
    ELSE NumberToString(n \div 10) \o <<DigitChars[(n % 10) + 1]>>

\* serde_json::to_string of a string: quoted, with " and \ escaped.
RECURSIVE JsonEscape(_)
JsonEscape(s) ==
    IF s = <<>> THEN <<>>
    ELSE (IF Head(s) \in {"\"", "\\"} THEN <<"\\", Head(s)>> ELSE <<Head(s)>>)
            \o JsonEscape(Tail(s))

JsonString(s) == <<"\"">> \o JsonEscape(s) \o <<"\"">>

\* serde_json::to_string of a slice of strings: ["a","b"].
RECURSIVE JsonItems(_)
JsonItems(ss) ==
    IF Len(ss) = 0 THEN <<>>
    ELSE IF Len(ss) = 1 THEN JsonString(ss[1])
    ELSE JsonString(ss[1]) \o <<",">> \o JsonItems(Tail(ss))

JsonArray(ss) == <<"[">> \o JsonItems(ss) \o <<"]">>

----------------------------------------------------------------------------
(* The transport: Ferinth::get, post, post_json, delete *)

Request(method, url, body, content_type) ==
    [method |-> method, url |-> url, body |-> body, content_type |-> content_type,
     auth |-> client.token]

\* The call of task t hands one request to the transport and suspends.
Transport(t, req) ==
    /\ pc' = [pc EXCEPT ![t] = "awaiting"]
    /\ sent' = [sent EXCEPT ![t] = Append(@, req)]
    /\ UNCHANGED <<reply, result>>

get(t, url) == Transport(t, Request("GET", url, <<>>, <<>>))
post(t, url, body, content_type) == Transport(t, Request("POST", url, body, content_type))
post_json(t, url, body) == Transport(t, Request("POST", url, body, <<"a", "p", "p", "l", "i", "c", "a", "t", "i", "o", "n", "/", "j", "s", "o", "n">>))
delete(t, url) == Transport(t, Request("DELETE", url, <<>>, <<>>))

\* The call of task t returns r to its caller without suspending.
ReturnNow(t, r) ==
    /\ pc' = [pc EXCEPT ![t] = "done"]
    /\ result' = [result EXCEPT ![t] = r]
    /\ UNCHANGED <<sent, reply>>

\* What the transport can return for a call of operation op.
BodyOf(op) ==
    CASE op = "get_project" -> OkValue("Project", "-")
      [] op = "get_multiple_projects" -> OkValue("Vec<Project>", "-")
      [] op = "get_random_projects" -> OkValue("Vec<Project>", "-")
      [] op = "does_exist" -> OkValue("Response", CanonicalId)
      [] op = "add_gallery_image" -> OkValue("Response", "-")
      [] op = "get_project_dependencies" -> OkValue("ProjectDependencies", "-")
      [] op = "follow" -> OkValue("()", "-")
      [] op = "unfollow" -> OkValue("Response", "-")

TransportOutcomes(op) == {BodyOf(op)} \cup {Err(e) : e \in TransportErrors}

----------------------------------------------------------------------------
(* Validation of the identifiers of a call *)

\* The index of the first identifier check_id_slug rejects, 0 when there is none.
FirstRejected(inputs) ==
    LET bad == {i \in 1..Len(inputs) : check_id_slug(inputs[i]) # Ok}
    IN IF bad = {} THEN 0 ELSE CHOOSE i \in bad : \A j \in bad : i <= j

\* check_id_slug on a slice: each member in order, stopping at the first that
\* fails.  examined counts the members looked at.
check_id_slugs(inputs) ==
    LET first == FirstRejected(inputs)
    IN IF first = 0
       THEN [result |-> Ok, examined |-> Len(inputs)]
       ELSE [result |-> check_id_slug(inputs[first]), examined |-> first]

----------------------------------------------------------------------------
(* Inputs of the calls *)

\* Most identifiers in one call of get_multiple_projects.
MaxIds == 2

\* The identifiers callers pass: the empty one, two well-formed ones and
\* two with characters that have a meaning in a URL.
CallIds ==
    { <<>>,
      <<"o", "k", "-", "z", "o", "o", "m", "e", "r">>,
      <<"b", "a", "d", "/", "s", "l", "u", "g">>,
      <<".", ".", "?", "x", "#", "%">> }

IdLists == SeqsUpTo(CallIds, MaxIds)
Counts == {5, 12}
Images == {<<137, 80, 78, 71>>}
Titles == {None, Some(<<"T", "e", "s", "t", " ", "i", "m", "a", "g", "e">>)}
Descriptions == {None, Some(<<"T", "h", "i", "s", " ", "i", "s", " ", "a", " ", "t", "e", "s", "t", " ", "i", "m", "a", "g", "e">>)}

NoCall ==
    [op |-> "none", ids |-> <<>>, count |-> 0, image |-> <<>>, ext |-> "PNG",
     featured |-> FALSE, title |-> None, description |-> None]

IdCall(op, project_id) == [NoCall EXCEPT !.op = op, !.ids = <<project_id>>]

\* A call begins: task t is idle, and its arguments are recorded.
Begin(t, c) ==
    /\ pc[t] = "idle"
    /\ call' = [call EXCEPT ![t] = c]
    /\ UNCHANGED <<client, validatorVars>>

\* check_id_slug(ids)?; then rest: the error returns at once.
Checked(t, ids, rest) ==
    LET v == check_id_slugs(ids)
    IN /\ examined' = [examined EXCEPT ![t] = v.examined]
       /\ IF v.result # Ok THEN ReturnNow(t, Err(v.result)) ELSE rest

----------------------------------------------------------------------------
(* The operations: src/src/api_calls/project.rs, up to the await *)

get_project(t, project_id) ==
    /\ Begin(t, IdCall("get_project", project_id))
    /\ Checked(t, <<project_id>>,
               get(t, join_all(client.base_url, <<SegProject, project_id>>)))

\* get_multiple_projects checking only the first identifier.
get_multiple_projects_firstOnly(t, project_ids) ==
    /\ Begin(t, [NoCall EXCEPT !.op = "get_multiple_projects", !.ids = project_ids])
    /\ Checked(t, SubSeq(project_ids, 1, IF Len(project_ids) = 0 THEN 0 ELSE 1),
               get(t, with_query(join_all(client.base_url, <<SegProjects>>),
                                 <<<<KeyIds, JsonArray(project_ids)>>>>)))

get_multiple_projects(t, project_ids) ==
    /\ Begin(t, [NoCall EXCEPT !.op = "get_multiple_projects", !.ids = project_ids])
    /\ Checked(t, project_ids,
               get(t, with_query(join_all(client.base_url, <<SegProjects>>),
                                 <<<<KeyIds, JsonArray(project_ids)>>>>)))

get_random_projects(t, count) ==
    /\ Begin(t, [NoCall EXCEPT !.op = "get_random_projects", !.count = count])
    /\ examined' = [examined EXCEPT ![t] = 0]
    /\ get(t, with_query(join_all(client.base_url, <<SegProjectsRandom>>),
                         <<<<KeyCount, NumberToString(count)>>>>))

does_exist(t, project_id) ==
    /\ Begin(t, IdCall("does_exist", project_id))
    /\ Checked(t, <<project_id>>,
               get(t, join_all(client.base_url, <<SegProject, project_id, SegCheck>>)))

\* The query of add_gallery_image with the description pushed before the title.
gallery_query_swapped(ext, featured, title, description) ==
    <<<<KeyExt, ExtDisplay(ext)>>, <<KeyFeatured, BoolToString(featured)>>>>
        \o (IF description # None THEN <<<<KeyDescription, description[1]>>>> ELSE <<>>)
        \o (IF title # None THEN <<<<KeyTitle, title[1]>>>> ELSE <<>>)

\* let mut query = vec![ext, featured]; then title and description when Some.
gallery_query(ext, featured, title, description) ==
    <<<<KeyExt, ExtDisplay(ext)>>, <<KeyFeatured, BoolToString(featured)>>>>
        \o (IF title # None THEN <<<<KeyTitle, title[1]>>>> ELSE <<>>)
        \o (IF description # None THEN <<<<KeyDescription, description[1]>>>> ELSE <<>>)

add_gallery_image(t, project_id, image, ext, featured, title, description) ==
    /\ Begin(t, [op |-> "add_gallery_image", ids |-> <<project_id>>, count |-> 0,
                 image |-> image, ext |-> ext, featured |-> featured,
                 title |-> title, description |-> description])
    /\ Checked(t, <<project_id>>,
               post(t,
                    with_query(join_all(client.base_url,
                                        <<SegProject, project_id, SegGallery>>),
                               gallery_query(ext, featured, title, description)),
                    image,
                    <<"i", "m", "a", "g", "e", "/">> \o ExtDisplay(ext)))

get_project_dependencies(t, project_id) ==
    /\ Begin(t, IdCall("get_project_dependencies", project_id))
    /\ Checked(t, <<project_id>>,
               get(t, join_all(client.base_url,
                               <<SegProject, project_id, SegDependencies>>)))

\* follow sending its request before it checks the identifier.
follow_sendFirst(t, project_id) ==
    /\ Begin(t, IdCall("follow", project_id))
    /\ examined' = [examined EXCEPT ![t] = 1]
    /\ post_json(t, join_all(client.base_url, <<SegProject, project_id, SegFollow>>),
                 <<>>)

\* follow refusing locally when the client holds no token.
follow_needsToken(t, project_id) ==
    /\ Begin(t, IdCall("follow", project_id))
    /\ Checked(t, <<project_id>>,
               IF client.token = None
               THEN ReturnNow(t, Err("NoToken"))
               ELSE post_json(t, join_all(client.base_url,
                                          <<SegProject, project_id, SegFollow>>),
                              <<>>))

follow(t, project_id) ==
    /\ Begin(t, IdCall("follow", project_id))
    /\ Checked(t, <<project_id>>,
               post_json(t, join_all(client.base_url,
                                     <<SegProject, project_id, SegFollow>>),
                         <<>>))

\* unfollow dropping the client's token.
unfollow_dropsToken(t, project_id) ==
    /\ pc[t] = "idle"
    /\ call' = [call EXCEPT ![t] = IdCall("unfollow", project_id)]
    /\ client' = [client EXCEPT !.token = None]
    /\ UNCHANGED validatorVars
    /\ Checked(t, <<project_id>>,
               delete(t, join_all(client.base_url, <<SegProject, project_id, SegFollow>>)))

unfollow(t, project_id) ==
    /\ Begin(t, IdCall("unfollow", project_id))
    /\ Checked(t, <<project_id>>,
               delete(t, join_all(client.base_url, <<SegProject, project_id, SegFollow>>)))

----------------------------------------------------------------------------
(* The operations after the await: what each makes of the transport's result *)

\* does_exist answering an error of the transport with an empty id.
does_exist_result_swallow(r) ==
    IF r.tag = "Err" THEN OkValue("String", "-") ELSE OkValue("String", r.id)

\* let res: Response = self.get(..).await?; Ok(res.id)
does_exist_result(r) == IF r.tag = "Err" THEN r ELSE OkValue("String", r.id)

\* self.post(..).await?; Ok(())  and  self.delete(..).await?; Ok(())
unit_result(r) == IF r.tag = "Err" THEN r ELSE OkValue("()", "-")

\* self.get(..).await and self.post_json(..).await: the transport's result as it is.
ResultOf(op, r) ==
    CASE op = "does_exist" -> does_exist_result(r)
      [] op \in {"add_gallery_image", "unfollow"} -> unit_result(r)
      [] OTHER -> r

\* The transport returns to the suspended call of task t, which completes.
Complete(t) ==
    /\ pc[t] = "awaiting"
    /\ \E r \in TransportOutcomes(call[t].op) :
        /\ reply' = [reply EXCEPT ![t] = r]
        /\ result' = [result EXCEPT ![t] = ResultOf(call[t].op, r)]
    /\ pc' = [pc EXCEPT ![t] = "done"]
    /\ UNCHANGED <<client, call, sent, examined, validatorVars>>

\* The caller of task t has its result and may call again.
Finish(t) ==
    /\ pc[t] = "done"
    /\ pc' = [pc EXCEPT ![t] = "idle"]
    /\ call' = [call EXCEPT ![t] = NoCall]
    /\ sent' = [sent EXCEPT ![t] = <<>>]
    /\ reply' = [reply EXCEPT ![t] = NoValue]
    /\ result' = [result EXCEPT ![t] = NoValue]
    /\ examined' = [examined EXCEPT ![t] = 0]
    /\ UNCHANGED <<client, validatorVars>>

----------------------------------------------------------------------------
(* Specifications *)

InitCalls ==
    /\ client \in Clients
    /\ pc = [t \in Tasks |-> "idle"]
    /\ call = [t \in Tasks |-> NoCall]
    /\ sent = [t \in Tasks |-> <<>>]
    /\ reply = [t \in Tasks |-> NoValue]
    /\ result = [t \in Tasks |-> NoValue]
    /\ examined = [t \in Tasks |-> 0]

Init == InitCalls /\ ValidatorsOff

Next ==
    \/ \E t \in Tasks, id \in CallIds : get_project(t, id)
    \/ \E t \in Tasks, ids \in IdLists : get_multiple_projects(t, ids)
    \/ \E t \in Tasks, count \in Counts : get_random_projects(t, count)
    \/ \E t \in Tasks, id \in CallIds : does_exist(t, id)
    \/ \E t \in Tasks, id \in CallIds, image \in Images, ext \in FileExt,
          featured \in BOOLEAN, title \in Titles, description \in Descriptions :
            add_gallery_image(t, id, image, ext, featured, title, description)
    \/ \E t \in Tasks, id \in CallIds : get_project_dependencies(t, id)
    \/ \E t \in Tasks, id \in CallIds : follow(t, id)
    \/ \E t \in Tasks, id \in CallIds : unfollow(t, id)
    \/ \E t \in Tasks : Complete(t)
    \/ \E t \in Tasks : Finish(t)

Spec == Init /\ [][Next]_vars

\* The validators alone, each applied to one input.
InitV ==
    /\ InitValidators
    /\ client = [base_url |-> "API_BASE_URL", user_agent |-> "agent", token |-> None]
    /\ pc = [t \in Tasks |-> "idle"]
    /\ call = [t \in Tasks |-> NoCall]
    /\ sent = [t \in Tasks |-> <<>>]
    /\ reply = [t \in Tasks |-> NoValue]
    /\ result = [t \in Tasks |-> NoValue]
    /\ examined = [t \in Tasks |-> 0]

NextV ==
    \/ RunCheckIdSlug /\ UNCHANGED callVars
    \/ RunCheckSha1Hash /\ UNCHANGED callVars

SpecV == InitV /\ [][NextV]_vars

----------------------------------------------------------------------------
(* The properties.  The character sets are written out, independently of the
   ranges of the regular expressions. *)

AsciiLetters ==
    {"a", "b", "c", "d", "e", "f", "g", "h", "i", "j", "k", "l", "m",
     "n", "o", "p", "q", "r", "s", "t", "u", "v", "w", "x", "y", "z",
     "A", "B", "C", "D", "E", "F", "G", "H", "I", "J", "K", "L", "M",
     "N", "O", "P", "Q", "R", "S", "T", "U", "V", "W", "X", "Y", "Z"}
AsciiDigits == {"0", "1", "2", "3", "4", "5", "6", "7", "8", "9"}
SlugChars == AsciiLetters \cup AsciiDigits \cup {"-"}
LowerHexChars == AsciiDigits \cup {"a", "b", "c", "d", "e", "f"}
UrlStructuralChars == {"/", "?", "#", "%", "."}

OnlySlugChars(s) == \A i \in 1..Len(s) : s[i] \in SlugChars
Malformed(s) == \E i \in 1..Len(s) : s[i] \notin SlugChars

\* C1: check_id_slug returns Ok exactly when every character of the input is
\* an ASCII letter, an ASCII digit or a hyphen, and NotBase62 exactly when the
\* input has a character outside that set.
C1_SlugValidator ==
    (vkind = "slug" /\ vout # "none") =>
        /\ vout = Ok <=> OnlySlugChars(vinput)
        /\ vout = NotBase62 <=> Malformed(vinput)

C1_Witness ==
    /\ vkind = "slug"
    /\ vinput = <<"b", "a", "d", "/", "s", "l", "u", "g">>
    /\ vout = NotBase62

\* C2: check_sha1_hash returns Ok exactly when the input has 40 characters,
\* each one of 0-9 or a-f, and NotSHA1 for every other input.
C2_Sha1Validator ==
    (vkind = "sha1" /\ vout # "none") =>
        LET wellFormed ==
                /\ Len(vinput) = 40
                /\ \A i \in 1..Len(vinput) : vinput[i] \in LowerHexChars
        IN /\ vout = Ok <=> wellFormed
           /\ vout = NotSHA1 <=> ~wellFormed

C2_Witness ==
    /\ vkind = "sha1"
    /\ Len(vinput) = 40
    /\ \E i \in 1..40 :
        /\ vinput[i] = "A"
        /\ \A j \in (1..40) \ {i} : vinput[j] \in LowerHexChars
    /\ vout = NotSHA1

\* C3 as claimed: the empty string fails both validators, check_id_slug with
\* NotBase62 and check_sha1_hash with NotSHA1.
C3_EmptyFailsBoth ==
    (vinput = <<>> /\ vout # "none") =>
        /\ vkind = "slug" => vout = NotBase62
        /\ vkind = "sha1" => vout = NotSHA1

\* C3 as amended: the empty string passes check_id_slug (it has no character
\* outside the set) and fails check_sha1_hash with NotSHA1.
C3_EmptyString ==
    (vinput = <<>> /\ vout # "none") =>
        /\ vkind = "slug" => vout = Ok
        /\ vkind = "sha1" => vout = NotSHA1

C3_Witness ==
    /\ vinput = <<>>
    /\ vkind = "slug"
    /\ vout = Ok

IdOps ==
    {"get_project", "get_multiple_projects", "does_exist", "add_gallery_image",
     "get_project_dependencies", "follow", "unfollow"}
OneIdOps == IdOps \ {"get_multiple_projects"}
AuthOps == {"add_gallery_image", "follow", "unfollow"}

\* Every identifier of the call passes the validator.
Passes(c) == \A i \in 1..Len(c.ids) : check_id_slug(c.ids[i]) = Ok

\* C4: in every operation that takes an id or slug, a malformed identifier
\* makes the call return NotBase62 with no request handed to the transport.
C4_ValidationBeforeTransport ==
    \A t \in Tasks :
        (/\ pc[t] # "idle"
         /\ call[t].op \in IdOps
         /\ \E i \in 1..Len(call[t].ids) : Malformed(call[t].ids[i]))
        => /\ pc[t] = "done"
           /\ result[t] = Err(NotBase62)
           /\ sent[t] = <<>>
           /\ reply[t] = NoValue

C4_Witness ==
    \E t \in Tasks :
        /\ pc[t] = "done"
        /\ call[t].op = "add_gallery_image"
        /\ call[t].ids = << <<"b", "a", "d", "/", "s", "l", "u", "g">> >>
        /\ result[t] = Err(NotBase62)
        /\ sent[t] = <<>>

MethodOf(op) ==
    CASE op \in {"add_gallery_image", "follow"} -> "POST"
      [] op = "unfollow" -> "DELETE"
      [] OTHER -> "GET"

\* C6: a call whose validation passes hands exactly one request to the
\* transport, and a failure of that request is the call's own result: it is
\* neither followed by a second request nor turned into a success.
C6_SingleRoundTrip ==
    \A t \in Tasks :
        (call[t].op # "none" /\ Passes(call[t])) =>
            /\ pc[t] \in {"awaiting", "done"}
            /\ Len(sent[t]) = 1
            /\ sent[t][1].method = MethodOf(call[t].op)
            /\ (pc[t] = "done" /\ reply[t].tag = "Err") => result[t] = reply[t]

C6_Witness ==
    \E t \in Tasks :
        /\ call[t].op = "does_exist"
        /\ pc[t] = "done"
        /\ reply[t] = Err("HttpStatus")
        /\ result[t] = Err("HttpStatus")
        /\ Len(sent[t]) = 1

\* C7: with a client that holds no token, add_gallery_image, follow and
\* unfollow with a valid id still hand their request to the transport, and
\* the only failure of the call is the one the transport returns.
C7_NoLocalTokenCheck ==
    \A t \in Tasks :
        (client.token = None /\ call[t].op \in AuthOps /\ Passes(call[t])) =>
            /\ Len(sent[t]) = 1
            /\ sent[t][1].auth = None
            /\ (pc[t] = "done" /\ result[t].tag = "Err") =>
                    /\ result[t] = reply[t]
                    /\ result[t].kind \in TransportErrors

C7_Witness ==
    \E t \in Tasks :
        /\ client.token = None
        /\ call[t].op = "follow"
        /\ call[t].ids = << <<"o", "k", "-", "z", "o", "o", "m", "e", "r">> >>
        /\ pc[t] = "done"
        /\ Len(sent[t]) = 1
        /\ result[t] = Err("HttpStatus")

\* What a task's call holds.
Local(t) == <<pc[t], call[t], sent[t], reply[t], result[t], examined[t]>>

\* C8: no step changes the client's configuration; a step of one call leaves
\* every other call as it is; and two calls in flight with the same arguments
\* have the same validation outcome and the same request, however they
\* interleave.
C8_CallsIndependent ==
    [][/\ client' = client
       /\ \A t, u \in Tasks :
            (t # u /\ Local(t)' # Local(t)) => Local(u)' = Local(u)
       /\ \A t, u \in Tasks :
            (pc'[t] # "idle" /\ pc'[u] # "idle" /\ call'[t] = call'[u]) =>
                /\ sent'[t] = sent'[u]
                /\ examined'[t] = examined'[u]
                /\ (result'[t] = Err(NotBase62)) <=> (result'[u] = Err(NotBase62))
      ]_vars

C8_Witness ==
    /\ client.token # None
    /\ pc["t1"] = "awaiting"
    /\ pc["t2"] = "done"
    /\ call["t1"] = call["t2"]
    /\ call["t1"].op = "unfollow"
    /\ sent["t1"] = sent["t2"]
    /\ Len(sent["t1"]) = 1

\* C9: add_gallery_image with a valid id hands the transport one POST to
\* project/{id}/gallery whose query is ext, featured, then title only when
\* given, then description only when given, with content type image/{ext}
\* for the ext of the query, and the image bytes as the body.
C9_GalleryRequest ==
    \A t \in Tasks :
        (call[t].op = "add_gallery_image" /\ Passes(call[t])) =>
            /\ Len(sent[t]) = 1
            /\ LET r == sent[t][1]
                   c == call[t]
                   qy == r.url.query
                   n == 2 + (IF c.title # None THEN 1 ELSE 0)
                          + (IF c.description # None THEN 1 ELSE 0)
               IN /\ r.method = "POST"
                  /\ r.url.path = SegProject \o <<"/">> \o c.ids[1] \o <<"/">> \o SegGallery
                  /\ Len(qy) = n
                  /\ qy[1][1] = KeyExt
                  /\ qy[1][2] = (IF c.ext = "PNG" THEN <<"p", "n", "g">> ELSE <<"j", "p", "e", "g">>)
                  /\ qy[2] = <<KeyFeatured, IF c.featured THEN <<"t", "r", "u", "e">> ELSE <<"f", "a", "l", "s", "e">>>>
                  /\ c.title # None => qy[3] = <<KeyTitle, c.title[1]>>
                  /\ c.description # None => qy[n] = <<KeyDescription, c.description[1]>>
                  /\ r.content_type = <<"i", "m", "a", "g", "e", "/">> \o qy[1][2]
                  /\ r.body = c.image

C9_Witness ==
    \E t \in Tasks :
        /\ call[t].op = "add_gallery_image"
        /\ call[t].title # None
        /\ call[t].description # None
        /\ call[t].featured
        /\ pc[t] = "awaiting"
        /\ Len(sent[t]) = 1
        /\ Len(sent[t][1].url.query) = 4

\* The parts of s between the occurrences of sep.
RECURSIVE Split(_, _)
Split(s, sep) ==
    LET at == {i \in 1..Len(s) : s[i] = sep}
    IN IF at = {} THEN <<s>>
       ELSE LET k == CHOOSE i \in at : \A j \in at : i <= j
            IN <<SubSeq(s, 1, k - 1)>> \o Split(SubSeq(s, k + 1, Len(s)), sep)

\* The literal segments after the id in the path of an operation.
TailOf(op) ==
    CASE op = "does_exist" -> <<SegCheck>>
      [] op = "add_gallery_image" -> <<SegGallery>>
      [] op = "get_project_dependencies" -> <<SegDependencies>>
      [] op \in {"follow", "unfollow"} -> <<SegFollow>>
      [] OTHER -> <<>>

\* The id of the call of task t has passed check_id_slug and has no character
\* with a meaning in a URL, and the path of the request is project, the id and
\* the operation's literal segments, with nothing of the id in the query.
IdIsOneSegment(t) ==
    LET id == call[t].ids[1]
        r == sent[t][1]
    IN /\ \A i \in 1..Len(id) : id[i] \notin UrlStructuralChars
       /\ Len(sent[t]) = 1
       /\ Split(r.url.path, "/") = <<SegProject, id>> \o TailOf(call[t].op)
       /\ \A i \in 1..Len(r.url.path) : r.url.path[i] \notin {"?", "#", "%"}
       /\ \A i \in 1..Len(r.url.query) : r.url.query[i][1] # id

====
